---------------------------- MODULE Spec2Model ----------------------------
(***************************************************************************)
(* A model of soft/ariane/drivers/it-mini-era2/app/                        *)
(* calculate_dist_from_fmcw.c: the FMCW range computation of mini-era.     *)
(*                                                                         *)
(* Number representations used by the model                                *)
(*   - unsigned int (32 bits) is a bit vector, a function from             *)
(*     0..WordBits-1 to {0,1} with index 0 the least significant bit, so   *)
(*     that the shifts of fft_rev lose the bits a 32-bit register loses;   *)
(*   - a float sample is an integer k that stands for k / SampleDen, a     *)
(*     dyadic grid on which sums, differences and squares of the inputs    *)
(*     are exact in float; a power is the fraction num/den, and on this    *)
(*     grid rounding x/100.0 to float keeps the order of any two powers    *)
(*     and of a power and the threshold;                                   *)
(*   - an int64 fixed-point word is a pair of limbs hi * Limb + lo;        *)
(*   - a float/double result that may be infinite is a fraction num/den,   *)
(*     with den = 0 for +infinity.                                         *)
(***************************************************************************)
EXTENDS Integers, Sequences, FiniteSets

VARIABLES
    HW_FFT,          \* the build has HW_FFT defined
    INT_TIME,        \* the build has INT_TIME defined
    data0,           \* the caller's buffer as it was handed in (history)
    data,            \* float* data / float* w: the interleaved sample buffer
    fftHW_log_len,   \* extern int32_t fftHW_log_len
    fftHW_lmem,      \* extern int64_t* fftHW_lmem: the hardware memory region
    pc,              \* position in the running function
    max_psd,         \* float max_psd
    max_index,       \* unsigned int max_index
    ret,             \* the value returned to the caller, if any
    trace,           \* the stages executed so far, in order (history)
    distance,        \* float distance
    ioctl_rc,        \* status of the last ioctl() (0 before any)
    ioctl_calls,     \* number of ioctl() requests issued (history)
    now,             \* the wall clock gettimeofday() reads
    clock_step,      \* microseconds that pass between two readings of it
    tv,              \* the struct timeval globals of the INT_TIME build
    acc,             \* the uint64_t accumulators of the INT_TIME build
    br_i,            \* loop index i of fft_bit_reverse
    br_calls,        \* completed calls of fft_bit_reverse (history)
    swaps            \* <<i, r>> of each swap of the current call (history)

vars == <<HW_FFT, INT_TIME, data0, data, fftHW_log_len, fftHW_lmem, pc,
          max_psd, max_index, distance, ret, trace, ioctl_rc, ioctl_calls,
          now, clock_step, tv, acc, br_i, br_calls, swaps>>

-----------------------------------------------------------------------------
(* Bounds of the model *)

\* fft_bit_reverse is exercised for bits in 1..MaxBits
MaxBits == 3
\* number of input patterns fft_bit_reverse is exercised on
MaxPattern == 3
\* the caller's buffer is a sum of at most MaxImpulses unit impulses, each
\* +1/SampleDen or -1/SampleDen at one of its 2N floats
MaxImpulses == 2
\* samples lie on the grid of multiples of 2^-GridBits
GridBits == 1
\* between two readings of the wall clock at most MaxClock microseconds pass
MaxClock == 1

SampleDen == 2 ^ GridBits

-----------------------------------------------------------------------------
(* unsigned int as a bit vector *)

\* sizeof(unsigned int) * CHAR_BIT
WordBits == 32

BitIdx == 0 .. (WordBits - 1)

\* the bits of a number below 2^(WordBits - 1), which every index is
ToBits(x) ==
    [k \in BitIdx |-> IF k < WordBits - 1 THEN (x \div 2 ^ k) % 2 ELSE 0]

RECURSIVE ValFrom(_, _)
ValFrom(b, k) == IF k > WordBits - 1 THEN 0 ELSE b[k] + 2 * ValFrom(b, k + 1)

\* defined for vectors whose top bit is clear, which is all the model converts
FromBits(b) == ValFrom(b, 0)

Shl(b, s) == [k \in BitIdx |-> IF k >= s THEN b[k - s] ELSE 0]
Shr(b, s) == [k \in BitIdx |-> IF k + s <= WordBits - 1 THEN b[k + s] ELSE 0]
OrBit0(b, x) == [b EXCEPT ![0] = IF x = 1 THEN 1 ELSE b[0]]
IsZero(b) == \A k \in BitIdx : b[k] = 0

\* the loop of fft_rev: for (v >>= 1; v; v >>= 1) { r <<= 1; r |= v & 1; s--; }
RECURSIVE RevLoop(_, _, _)
RevLoop(v, r, s) ==
    IF IsZero(v) THEN [r |-> r, s |-> s]
    ELSE RevLoop(Shr(v, 1), OrBit0(Shl(r, 1), v[0]), s - 1)

fft_rev(v) ==
    LET l == RevLoop(Shr(v, 1), v, WordBits - 1)
    IN  Shl(l.r, l.s)

\* r = fft_rev(i); r >>= shift;  with shift = s - bits + 1, s = 31
RevIndex(i, bits) ==
    FromBits(Shr(fft_rev(ToBits(i)), (WordBits - 1) - bits + 1))

\* the test of line 82 that decides whether samples i and r are exchanged
SwapCond_NotEqual(i, r) == i # r

SwapCond(i, r) == i < r

\* the exchange of lines 83-88 without the temporaries: sample r is copied
\* over sample i and sample r keeps its value
BRBody_NoTemp(w, i, bits) ==
    LET r == RevIndex(i, bits)
    IN  IF SwapCond(i, r)
        THEN [w EXCEPT ![2 * i] = w[2 * r], ![2 * i + 1] = w[2 * r + 1]]
        ELSE w

\* one iteration of the loop of fft_bit_reverse
BRBody(w, i, bits) ==
    LET r == RevIndex(i, bits)
    IN  IF SwapCond(i, r)
        THEN [w EXCEPT ![2 * i] = w[2 * r], ![2 * i + 1] = w[2 * r + 1],
                       ![2 * r] = w[2 * i], ![2 * r + 1] = w[2 * i + 1]]
        ELSE w

RECURSIVE BRLoop(_, _, _, _)
BRLoop(w, i, n, bits) ==
    IF i < n THEN BRLoop(BRBody(w, i, bits), i + 1, n, bits) ELSE w

fft_bit_reverse(w, n, bits) == BRLoop(w, 0, n, bits)

fftHW_len == 2 ^ fftHW_log_len


-----------------------------------------------------------------------------
(* Values of the variables a specification does not use *)

Range(f) == {f[x] : x \in DOMAIN f}

FixedZero == [hi |-> 0, lo |-> 0]
NoValue == [kind |-> "none", num |-> 0, den |-> 1]
ZeroPsd == [num |-> 0, den |-> 1]
TimeZero == [tv_sec |-> 0, tv_usec |-> 0]
TimerNames == {"calc_start", "calc_stop", "fft_start", "fft_stop",
               "fft_br_stop", "fft_cvtin_start", "fft_cvtin_stop",
               "fft_cvtout_start", "fft_cvtout_stop",
               "cdfmcw_start", "cdfmcw_stop"}
AccNames == {"calc", "fft", "fft_br", "fft_cvtin", "fft_cvtout", "cdfmcw"}
\* uint64_t x_sec = 0LL, x_usec = 0LL (lines 13-34); an accumulator holds the
\* integer its uint64_t value is congruent to modulo 2^64
AccZero == [a \in AccNames |-> [sec |-> 0, usec |-> 0]]
TvZero == [t \in TimerNames |-> TimeZero]

-----------------------------------------------------------------------------
(* Radar parameters (calc_fmcw_dist.h) and the accelerator's configuration *)

\* log2 of the transform length; the model's transforms are exact for
\* lengths that divide 4, whose twiddle factors are 1, -i, -1 and i
RADAR_LOGN == 2
RADAR_N == 2 ^ RADAR_LOGN
\* sampling frequency, in Hz
RADAR_fs == 204800
\* speed of light and chirp slope, both in units of 10^8
RADAR_c == 3
RADAR_alpha == 48000

-----------------------------------------------------------------------------
(* The fixed-point codec (fixed_point.h) *)

\* the fractional-bit count passed to double_to_fixed64 and fixed64_to_double
FRAC_BITS == 42

LimbBits == FRAC_BITS \div 2
Limb == 2 ^ LimbBits

\* the int64 value hi * Limb + lo, with 0 <= lo < Limb
WNorm(hi, lo) == [hi |-> hi + (lo \div Limb), lo |-> lo % Limb]
WAdd(a, b) == WNorm(a.hi + b.hi, a.lo + b.lo)
WNeg(a) == WNorm(0 - a.hi, 0 - a.lo)
WSub(a, b) == WAdd(a, WNeg(b))

\* (int64_t)(x * 2^fb) for the sample x = k / SampleDen
double_to_fixed64(k, fb) == WNorm(k * 2 ^ (fb - GridBits - LimbBits), 0)

\* (float)(w / 2^fb), as a count of 1 / SampleDen; exact for every word that is
\* a multiple of 2^(fb - GridBits), which all words of the model are
fixed64_to_double(w, fb) == w.hi \div 2 ^ (fb - GridBits - LimbBits)

-----------------------------------------------------------------------------
(* The transforms: fft() of fft-1d.h and the accelerator behind the ioctl *)

\* z * (-i)^m
CMulNegI(z, m) ==
    CASE m % 4 = 0 -> z
      [] m % 4 = 1 -> [re |-> z.im, im |-> 0 - z.re]
      [] m % 4 = 2 -> [re |-> 0 - z.re, im |-> 0 - z.im]
      [] m % 4 = 3 -> [re |-> 0 - z.im, im |-> z.re]

CAdd(a, b) == [re |-> a.re + b.re, im |-> a.im + b.im]

CSample(buf, i) == [re |-> buf[2 * i], im |-> buf[2 * i + 1]]

\* sum over j < n of x[j] * w^(k*j), with w = exp(-2 pi i / n) = (-i)^(4/n)
RECURSIVE DftSum(_, _, _, _)
DftSum(buf, n, k, j) ==
    IF j >= n THEN [re |-> 0, im |-> 0]
    ELSE CAdd(CMulNegI(CSample(buf, j), (4 \div n) * k * j),
              DftSum(buf, n, k, j + 1))

\* fft(data, N, logn, -1): the forward discrete Fourier transform, in place
fft(buf, n) ==
    [j \in DOMAIN buf |->
        IF j % 2 = 0 THEN DftSum(buf, n, j \div 2, 0).re
        ELSE DftSum(buf, n, j \div 2, 0).im]

WMulNegI(z, m) ==
    CASE m % 4 = 0 -> z
      [] m % 4 = 1 -> [re |-> z.im, im |-> WNeg(z.re)]
      [] m % 4 = 2 -> [re |-> WNeg(z.re), im |-> WNeg(z.im)]
      [] m % 4 = 3 -> [re |-> WNeg(z.im), im |-> z.re]

WCAdd(a, b) == [re |-> WAdd(a.re, b.re), im |-> WAdd(a.im, b.im)]
WCSub(a, b) == [re |-> WSub(a.re, b.re), im |-> WSub(a.im, b.im)]

\* one pass of radix-2 decimation-in-time butterflies of span m over the
\* fixed-point region; the twiddle factor of position j is (-i)^((4/m) * j)
HWStage(mem, m) ==
    LET half == m \div 2
        out(i) ==
            LET j == i % m
            IN  IF j < half
                THEN WCAdd(CSample(mem, i),
                           WMulNegI(CSample(mem, i + half), (4 \div m) * j))
                ELSE WCSub(CSample(mem, i - half),
                           WMulNegI(CSample(mem, i), (4 \div m) * (j - half)))
    IN  [x \in DOMAIN mem |->
            IF x % 2 = 0 THEN out(x \div 2).re ELSE out(x \div 2).im]

RECURSIVE HWPasses(_, _, _)
HWPasses(mem, s, logn) ==
    IF s > logn THEN mem ELSE HWPasses(HWStage(mem, 2 ^ s), s + 1, logn)

\* the accelerator's transform of the region, which expects bit-reversed input
FFTHW(mem, logn) == HWPasses(mem, 1, logn)

-----------------------------------------------------------------------------
(* The peak search and the distance (lines 169-191) *)

\* a > b for fractions with positive denominators
RatGT(a, b) == a.num * b.den > b.num * a.den

\* temp = (pow(data[2*i],2) + pow(data[2*i+1],2))/100.0
Temp(d, i) ==
    [num |-> d[2 * i] * d[2 * i] + d[2 * i + 1] * d[2 * i + 1],
     den |-> 100 * SampleDen * SampleDen]

\* if (temp >= max_psd): the scan with the strict test loosened
ScanTest_GreaterEqual(t, m) == ~RatGT(m, t)

\* if (temp > max_psd)
ScanTest(t, m) == RatGT(t, m)

\* for (i = 0; i < RADAR_N; i++) { temp = ...; if (temp > max_psd) {...} }
RECURSIVE ScanLoop(_, _, _, _)
ScanLoop(d, i, n, best) ==
    IF i >= n THEN best
    ELSE ScanLoop(d, i + 1, n,
                  IF ScanTest(Temp(d, i), best.max_psd)
                  THEN [max_psd |-> Temp(d, i), max_index |-> i]
                  ELSE best)

\* the scan with its bound one short: for (i = 0; i < RADAR_N - 1; i++)
PeakScan_SkipLast(d) ==
    ScanLoop(d, 0, RADAR_N - 1, [max_psd |-> ZeroPsd, max_index |-> 0])

PeakScan(d) == ScanLoop(d, 0, RADAR_N, [max_psd |-> ZeroPsd, max_index |-> 0])

\* ((float)(max_index*((float)RADAR_fs)/((float)(RADAR_N))))*0.5*RADAR_c/
\* ((float)(RADAR_alpha))
Distance(idx) ==
    [kind |-> "float", num |-> idx * RADAR_fs * RADAR_c,
     den |-> RADAR_N * 2 * RADAR_alpha]

INFINITY == [kind |-> "float", num |-> 1, den |-> 0]

\* 1e-10*pow(8192,2) = 2^26 / 10^10 = 2^16 / 5^10
Threshold == [num |-> 2 ^ 16, den |-> 5 ^ 10]

\* the test inverted
Detected_Inverted(m) == ~RatGT(m, Threshold)

\* if (max_psd > 1e-10*pow(8192,2))
Detected(m) == RatGT(m, Threshold)

-----------------------------------------------------------------------------
(* Specification SpecBR: fft_bit_reverse(w, n, bits) on its own, called twice
   in a row on the same buffer, for n = 2^bits and bits in 1..MaxBits *)

Pattern(a, j) == IF a = 1 THEN j ELSE (a * j) % 5

InitBR ==
    /\ HW_FFT = TRUE
    /\ INT_TIME = FALSE
    /\ fftHW_log_len \in 1 .. MaxBits
    /\ \E a \in 1 .. MaxPattern :
          data0 = [j \in 0 .. (2 * fftHW_len - 1) |-> Pattern(a, j)]
    /\ data = data0
    /\ fftHW_lmem = [j \in 0 .. (2 * fftHW_len - 1) |-> FixedZero]
    /\ pc = "br_idle"
    /\ max_psd = ZeroPsd
    /\ max_index = 0
    /\ ret = NoValue
    /\ trace = << >>
    /\ distance = NoValue
    /\ ioctl_rc = 0
    /\ ioctl_calls = 0
    /\ now = TimeZero
    /\ clock_step = 0
    /\ tv = TvZero
    /\ acc = AccZero
    /\ br_i = 0
    /\ br_calls = 0
    /\ swaps = << >>

UnchangedByBR ==
    UNCHANGED <<HW_FFT, INT_TIME, data0, fftHW_log_len, fftHW_lmem, max_psd,
                max_index, distance, ret, trace, ioctl_rc, ioctl_calls, now,
                clock_step, tv, acc>>

\* entry of fft_bit_reverse: for (i = 0; ...
BRCall ==
    /\ pc = "br_idle"
    /\ br_calls < 2
    /\ pc' = "br_loop"
    /\ br_i' = 0
    /\ swaps' = << >>
    /\ UNCHANGED <<data, br_calls>>
    /\ UnchangedByBR

\* one iteration: ... i < n; i++) { r = fft_rev(i); r >>= shift; if (i < r) swap }
BRIter ==
    /\ pc = "br_loop"
    /\ br_i < fftHW_len
    /\ data' = BRBody(data, br_i, fftHW_log_len)
    /\ swaps' = IF SwapCond(br_i, RevIndex(br_i, fftHW_log_len))
                THEN Append(swaps, <<br_i, RevIndex(br_i, fftHW_log_len)>>)
                ELSE swaps
    /\ br_i' = br_i + 1
    /\ UNCHANGED <<pc, br_calls>>
    /\ UnchangedByBR

\* the loop ends and fft_bit_reverse returns
BRReturn ==
    /\ pc = "br_loop"
    /\ br_i >= fftHW_len
    /\ pc' = "br_idle"
    /\ br_calls' = br_calls + 1
    /\ UNCHANGED <<data, br_i, swaps>>
    /\ UnchangedByBR

NextBR == BRCall \/ BRIter \/ BRReturn

SpecBR == InitBR /\ [][NextBR]_vars

\* the bits-wide reversal of i, by arithmetic on its binary digits
RECURSIVE BitReversal(_, _)
BitReversal(i, bits) ==
    IF bits = 0 THEN 0
    ELSE (i % 2) * 2 ^ (bits - 1) + BitReversal(i \div 2, bits - 1)

Sample(w, i) == <<w[2 * i], w[2 * i + 1]>>

BRDone(k) == pc = "br_idle" /\ br_calls = k

\* C1: for every n = 2^bits (bits >= 1) and every buffer, two calls of
\* fft_bit_reverse in a row leave the buffer equal to its original contents.
C1_Involution == BRDone(2) => data = data0

\* C1 witness: two calls are complete on a buffer the first call changed.
C1_Witness ==
    /\ BRDone(2)
    /\ fftHW_log_len >= 2
    /\ data = data0
    /\ fft_bit_reverse(data0, fftHW_len, fftHW_log_len) # data0

\* C2: after one call, the complex sample at every index i is the sample that
\* was at index r = fft_rev(i) >> (32 - bits), r is the bits-wide bit-reversal
\* of i, and the swaps performed are exactly the pairs <<i, r>> with i < r,
\* each once; a sample with i = r is never part of a swap.
C2_Permutation ==
    BRDone(1) =>
        /\ \A i \in 0 .. (fftHW_len - 1) :
              /\ RevIndex(i, fftHW_log_len) = BitReversal(i, fftHW_log_len)
              /\ Sample(data, i) = Sample(data0, RevIndex(i, fftHW_log_len))
        /\ Range(swaps) = {<<i, BitReversal(i, fftHW_log_len)>> :
                 i \in {j \in 0 .. (fftHW_len - 1) :
                           j < BitReversal(j, fftHW_log_len)}}
        /\ \A a, b \in 1 .. Len(swaps) :
              a # b => {swaps[a][1], swaps[a][2]} # {swaps[b][1], swaps[b][2]}
        /\ \A a \in 1 .. Len(swaps) : swaps[a][1] < swaps[a][2]

\* C2 witness: one call is complete on an 8-sample buffer of distinct values,
\* with a swapped pair (1 and 4) and fixed points (0, 2, 5, 7).
C2_Witness ==
    /\ BRDone(1)
    /\ fftHW_log_len = 3
    /\ \A j \in DOMAIN data0 : data0[j] = j
    /\ Sample(data, 1) = Sample(data0, 4)
    /\ Sample(data, 2) = Sample(data0, 2)
    /\ Len(swaps) = 2


-----------------------------------------------------------------------------
(* Specification Spec: one call of calculate_peak_dist_from_fmcw(data), in each
   of the four builds (HW_FFT and INT_TIME defined or not) *)

BufIdx == 0 .. (2 * RADAR_N - 1)

\* gettimeofday(): the wall clock, clock_step microseconds after its last
\* reading
ClockStart == [tv_sec |-> 0, tv_usec |-> 999999]
Later(t) ==
    IF t.tv_usec + clock_step >= 1000000
    THEN [tv_sec |-> t.tv_sec + 1, tv_usec |-> t.tv_usec + clock_step - 1000000]
    ELSE [t EXCEPT !.tv_usec = @ + clock_step]

\* x_sec += stop.tv_sec - start.tv_sec; x_usec += stop.tv_usec - start.tv_usec
Accumulate(a, name, stop, start) ==
    [a EXCEPT ![name] = [sec |-> @.sec + stop.tv_sec - start.tv_sec,
                         usec |-> @.usec + stop.tv_usec - start.tv_usec]]

\* where control continues: at the instrumentation block when the build has
\* one, at the next statement otherwise
Goto(timer, next) == IF INT_TIME THEN timer ELSE next

\* the encode loop bounded by the sample count instead of the float count
EncodeLoop_Half(mem, d, cnt) ==
    [j \in DOMAIN mem |->
        IF j < cnt \div 2 THEN double_to_fixed64(d[j], FRAC_BITS) ELSE mem[j]]

\* for (j = 0; j < cnt; j++) fftHW_lmem[j] = double_to_fixed64(data[j], 42)
EncodeLoop(mem, d, cnt) ==
    [j \in DOMAIN mem |->
        IF j < cnt THEN double_to_fixed64(d[j], FRAC_BITS) ELSE mem[j]]

\* the decode loop bounded by the sample count instead of the float count
DecodeLoop_Half(d, mem, cnt) ==
    [j \in DOMAIN d |->
        IF j < cnt \div 2 THEN fixed64_to_double(mem[j], FRAC_BITS) ELSE d[j]]

\* for (j = 0; j < cnt; j++) data[j] = (float)fixed64_to_double(fftHW_lmem[j], 42)
DecodeLoop(d, mem, cnt) ==
    [j \in DOMAIN d |->
        IF j < cnt THEN fixed64_to_double(mem[j], FRAC_BITS) ELSE d[j]]

\* the inputs: an impulse is <<position, sign>>, or <<0, 0>> for none
Impulses == {<<0, 0>>} \cup (BufIdx \X {0 - 1, 1})
RECURSIVE SumAt(_, _, _)
SumAt(imp, j, k) ==
    IF k = 0 THEN 0
    ELSE (IF imp[k][1] = j THEN imp[k][2] ELSE 0) + SumAt(imp, j, k - 1)

\* what an earlier call left in the hardware memory region
StaleWord == double_to_fixed64(1, FRAC_BITS)

Init ==
    /\ HW_FFT \in BOOLEAN
    /\ INT_TIME \in BOOLEAN
    /\ \E imp \in [1 .. MaxImpulses -> Impulses] :
          data0 = [j \in BufIdx |-> SumAt(imp, j, MaxImpulses)]
    /\ data = data0
    /\ fftHW_log_len = RADAR_LOGN
    /\ fftHW_lmem = [j \in BufIdx |-> StaleWord]
    /\ pc = IF INT_TIME THEN "t_calc_start"
            ELSE IF HW_FFT THEN "bit_reverse" ELSE "fft"
    /\ max_psd = ZeroPsd
    /\ max_index = 0
    /\ distance = NoValue
    /\ ret = NoValue
    /\ trace = << >>
    /\ ioctl_rc = 0
    /\ ioctl_calls = 0
    /\ now = ClockStart
    /\ clock_step \in IF INT_TIME THEN 0 .. MaxClock ELSE {0}
    /\ tv = TvZero
    /\ acc = AccZero
    /\ br_i = 0
    /\ br_calls = 0
    /\ swaps = << >>

Config == <<HW_FFT, INT_TIME, data0, fftHW_log_len, clock_step, br_i, br_calls,
           swaps>>
Timers == <<now, tv, acc>>
Results == <<max_psd, max_index, distance, ret>>
Device == <<fftHW_lmem, ioctl_rc, ioctl_calls>>

\* line 110
T_CalcStart ==
    /\ pc = "t_calc_start"
    /\ LET t == Later(now) IN
          /\ now' = t
          /\ tv' = [tv EXCEPT !.calc_start = t]
    /\ pc' = IF HW_FFT THEN "bit_reverse" ELSE "t_fft_start"
    /\ UNCHANGED <<Config, data, Results, Device, trace, acc>>

\* line 115
BitReverseStage ==
    /\ pc = "bit_reverse"
    /\ data' = fft_bit_reverse(data, fftHW_len, fftHW_log_len)
    /\ trace' = Append(trace, "bit_reverse")
    /\ pc' = Goto("t_br", "encode")
    /\ UNCHANGED <<Config, Results, Device, Timers>>

\* lines 117-121
T_BrStop ==
    /\ pc = "t_br"
    /\ LET t1 == Later(now)
           t2 == Later(t1) IN
          /\ now' = t2
          /\ tv' = [tv EXCEPT !.fft_br_stop = t1, !.fft_cvtin_start = t2]
          /\ acc' = Accumulate(acc, "fft_br", t1, tv.calc_start)
    /\ pc' = "encode"
    /\ UNCHANGED <<Config, data, Results, Device, trace>>

\* lines 125-127
EncodeStage ==
    /\ pc = "encode"
    /\ fftHW_lmem' = EncodeLoop(fftHW_lmem, data, 2 * fftHW_len)
    /\ trace' = Append(trace, "encode")
    /\ pc' = Goto("t_cvtin", "ioctl")
    /\ UNCHANGED <<Config, data, Results, ioctl_rc, ioctl_calls, Timers>>

\* lines 129-133
T_CvtIn ==
    /\ pc = "t_cvtin"
    /\ LET t1 == Later(now)
           t2 == Later(t1) IN
          /\ now' = t2
          /\ tv' = [tv EXCEPT !.fft_cvtin_stop = t1, !.fft_start = t2]
          /\ acc' = Accumulate(acc, "fft_cvtin", t1, tv.fft_cvtin_start)
    /\ pc' = "ioctl"
    /\ UNCHANGED <<Config, data, Results, Device, trace>>

\* fft_in_hw with the exit(EXIT_FAILURE) left out: a failed request is
\* reported and falls through to the caller's next statement
fft_in_hw_NoExit ==
    /\ pc = "ioctl"
    /\ ioctl_calls' = ioctl_calls + 1
    /\ \/ /\ ioctl_rc' = 0
          /\ fftHW_lmem' = FFTHW(fftHW_lmem, fftHW_log_len)
          /\ trace' = Append(trace, "request")
       \/ /\ ioctl_rc' = 0 - 1
          /\ fftHW_lmem' \in {fftHW_lmem, FFTHW(fftHW_lmem, fftHW_log_len)}
          /\ trace' = Append(Append(trace, "request"), "perror")
    /\ pc' = Goto("t_fft_hw", "decode")
    /\ UNCHANGED <<Config, data, Results, Timers>>

\* line 135 and fft_in_hw (lines 94-104): one blocking ioctl; on a non-zero
\* status perror() and exit(EXIT_FAILURE). A failed request leaves the region
\* as it was or transformed.
fft_in_hw ==
    /\ pc = "ioctl"
    /\ ioctl_calls' = ioctl_calls + 1
    /\ \/ /\ ioctl_rc' = 0
          /\ fftHW_lmem' = FFTHW(fftHW_lmem, fftHW_log_len)
          /\ trace' = Append(trace, "request")
          /\ pc' = Goto("t_fft_hw", "decode")
       \/ /\ ioctl_rc' = 0 - 1
          /\ fftHW_lmem' \in {fftHW_lmem, FFTHW(fftHW_lmem, fftHW_log_len)}
          /\ trace' = Append(Append(trace, "request"), "perror")
          /\ pc' = "exited"
    /\ UNCHANGED <<Config, data, Results, Timers>>

\* the block of lines 137-140 closed after the decode loop instead of before it
T_FftHw_SkipDecode ==
    /\ pc = "t_fft_hw"
    /\ LET t1 == Later(now)
           t2 == Later(t1) IN
          /\ now' = t2
          /\ tv' = [tv EXCEPT !.fft_stop = t1, !.fft_cvtout_start = t2]
          /\ acc' = Accumulate(acc, "fft", t1, tv.fft_start)
    /\ pc' = "t_cvtout"
    /\ UNCHANGED <<Config, data, Results, Device, trace>>

\* lines 137-140
T_FftHw ==
    /\ pc = "t_fft_hw"
    /\ LET t1 == Later(now)
           t2 == Later(t1) IN
          /\ now' = t2
          /\ tv' = [tv EXCEPT !.fft_stop = t1, !.fft_cvtout_start = t2]
          /\ acc' = Accumulate(acc, "fft", t1, tv.fft_start)
    /\ pc' = "decode"
    /\ UNCHANGED <<Config, data, Results, Device, trace>>

\* lines 142-144
DecodeStage ==
    /\ pc = "decode"
    /\ data' = DecodeLoop(data, fftHW_lmem, 2 * fftHW_len)
    /\ trace' = Append(trace, "decode")
    /\ pc' = Goto("t_cvtout", "peak_search")
    /\ UNCHANGED <<Config, Results, Device, Timers>>

\* lines 146-148
T_CvtOut ==
    /\ pc = "t_cvtout"
    /\ LET t1 == Later(now) IN
          /\ now' = t1
          /\ tv' = [tv EXCEPT !.fft_cvtout_stop = t1]
          /\ acc' = Accumulate(acc, "fft_cvtout", t1, tv.fft_cvtout_start)
    /\ pc' = "t_calc_stop"
    /\ UNCHANGED <<Config, data, Results, Device, trace>>

\* line 152
T_FftStartSw ==
    /\ pc = "t_fft_start"
    /\ LET t == Later(now) IN
          /\ now' = t
          /\ tv' = [tv EXCEPT !.fft_start = t]
    /\ pc' = "fft"
    /\ UNCHANGED <<Config, data, Results, Device, trace, acc>>

\* line 154
FftSw ==
    /\ pc = "fft"
    /\ data' = fft(data, RADAR_N)
    /\ trace' = Append(trace, "fft")
    /\ pc' = Goto("t_fft_stop", "peak_search")
    /\ UNCHANGED <<Config, Results, Device, Timers>>

\* lines 156-158
T_FftStopSw ==
    /\ pc = "t_fft_stop"
    /\ LET t1 == Later(now) IN
          /\ now' = t1
          /\ tv' = [tv EXCEPT !.fft_stop = t1]
          /\ acc' = Accumulate(acc, "fft", t1, tv.fft_start)
    /\ pc' = "t_calc_stop"
    /\ UNCHANGED <<Config, data, Results, Device, trace>>

\* lines 163-167
T_CalcStop ==
    /\ pc = "t_calc_stop"
    /\ LET t1 == Later(now)
           t2 == Later(t1) IN
          /\ now' = t2
          /\ tv' = [tv EXCEPT !.calc_stop = t1, !.cdfmcw_start = t2]
          /\ acc' = Accumulate(acc, "calc", t1, tv.calc_start)
    /\ pc' = "peak_search"
    /\ UNCHANGED <<Config, data, Results, Device, trace>>

\* lines 169-180
PeakSearch ==
    /\ pc = "peak_search"
    /\ max_psd' = PeakScan(data).max_psd
    /\ max_index' = PeakScan(data).max_index
    /\ distance' = Distance(PeakScan(data).max_index)
    /\ trace' = Append(trace, "peak_search")
    /\ pc' = Goto("t_cdfmcw", "threshold")
    /\ UNCHANGED <<Config, data, ret, Device, Timers>>

\* lines 183-185
T_Cdfmcw ==
    /\ pc = "t_cdfmcw"
    /\ LET t1 == Later(now) IN
          /\ now' = t1
          /\ tv' = [tv EXCEPT !.cdfmcw_stop = t1]
          /\ acc' = Accumulate(acc, "cdfmcw", t1, tv.cdfmcw_start)
    /\ pc' = "threshold"
    /\ UNCHANGED <<Config, data, Results, Device, trace>>

\* the function's end without its else branch: return distance;
Return_Unconditional ==
    /\ pc = "threshold"
    /\ ret' = distance
    /\ pc' = "returned"
    /\ UNCHANGED <<Config, data, max_psd, max_index, distance, Device, trace,
                   Timers>>

\* lines 187-191
Return ==
    /\ pc = "threshold"
    /\ ret' = IF Detected(max_psd) THEN distance ELSE INFINITY
    /\ pc' = "returned"
    /\ UNCHANGED <<Config, data, max_psd, max_index, distance, Device, trace,
                   Timers>>

TimerStep ==
    \/ T_CalcStart \/ T_BrStop \/ T_CvtIn \/ T_FftHw \/ T_CvtOut
    \/ T_FftStartSw \/ T_FftStopSw \/ T_CalcStop \/ T_Cdfmcw

Next ==
    \/ TimerStep
    \/ BitReverseStage \/ EncodeStage \/ fft_in_hw \/ DecodeStage
    \/ FftSw \/ PeakSearch \/ Return

Spec == Init /\ [][Next]_vars


-----------------------------------------------------------------------------
(* Properties of Spec *)

Bins == 0 .. (RADAR_N - 1)
RatEQ(a, b) == a.num * b.den = b.num * a.den
Returned == pc = "returned"
Exited == pc = "exited"
AfterScan == pc \in {"t_cdfmcw", "threshold", "returned"}
AllZero(d) == \A j \in DOMAIN d : d[j] = 0
InTrace(x) == \E k \in 1 .. Len(trace) : trace[k] = x
IsPrefix(a, b) ==
    /\ Len(a) <= Len(b)
    /\ \A k \in 1 .. Len(a) : a[k] = b[k]

\* the bins whose power no bin exceeds
MaxBins(d) == {i \in Bins : \A j \in Bins : ~RatGT(Temp(d, j), Temp(d, i))}
Lowest(S) == CHOOSE i \in S : \A j \in S : i <= j

\* C3: when two or more bins share the maximal power, max_index is the lowest
\* of them.
C3_TieLowestIndex ==
    (AfterScan /\ Cardinality(MaxBins(data)) >= 2) =>
        max_index = Lowest(MaxBins(data))

\* C3 witness: the scan has run over a spectrum whose maximal power is
\* positive and shared by exactly two bins, neither of them bin 0.
C3_Witness ==
    /\ AfterScan
    /\ MaxBins(data) = {1, 3}
    /\ RatGT(Temp(data, 1), ZeroPsd)
    /\ max_index = 1

\* C4: a call that returns, returns the distance if and only if the maximum
\* power over all bins is strictly greater than 1e-10 * 8192^2; at or below
\* the threshold it returns the sentinel INFINITY.
C4_ThresholdStrict ==
    Returned =>
        IF \E i \in Bins : RatGT(Temp(data, i), Threshold)
        THEN ret = Distance(Lowest(MaxBins(data))) /\ ret # INFINITY
        ELSE ret = INFINITY

\* C4 witness: a call returned the sentinel for a spectrum whose maximum power
\* is positive but not above the threshold.
C4_Witness ==
    /\ Returned
    /\ ret = INFINITY
    /\ \E i \in Bins : RatGT(Temp(data, i), ZeroPsd)
    /\ \A i \in Bins : ~RatGT(Temp(data, i), Threshold)

\* C5: for an all-zero sample buffer every bin's power is 0, max_psd stays 0
\* with max_index 0, and the call returns the sentinel, in the software and in
\* the hardware build.
C5_ZeroSignal ==
    AllZero(data0) =>
        /\ AfterScan =>
              /\ \A i \in Bins : RatEQ(Temp(data, i), ZeroPsd)
              /\ max_psd = ZeroPsd
              /\ max_index = 0
        /\ Returned => ret = INFINITY

\* C5 witness: the hardware build returned the sentinel for an all-zero buffer
\* although the hardware memory region held stale non-zero words at entry.
C5_Witness ==
    /\ AllZero(data0)
    /\ HW_FFT
    /\ Returned
    /\ ret = INFINITY
    /\ AllZero(data)
    /\ \A j \in BufIdx : fftHW_lmem[j] = FixedZero /\ StaleWord # FixedZero

FaultOrder == <<"bit_reverse", "encode", "request", "perror">>

\* C6: once the device request has returned a non-success status the failure
\* has been reported and the process has terminated: no step follows, the
\* decode and the peak search have not run, the buffer still holds the bit-reversed input and not the region's
\* contents, nothing was returned, and the request was issued exactly once.
C6_FatalFault ==
    (ioctl_calls > 0 /\ ioctl_rc # 0) =>
        /\ Exited
        /\ ~ENABLED Next
        /\ ioctl_calls = 1
        /\ trace = FaultOrder
        /\ data = fft_bit_reverse(data0, fftHW_len, fftHW_log_len)
        /\ max_psd = ZeroPsd /\ max_index = 0 /\ distance = NoValue
        /\ ret = NoValue

\* C6 witness: the request failed after the accelerator had already written
\* its output over the region, and that output differs from the buffer.
C6_Witness ==
    /\ Exited
    /\ ioctl_rc # 0
    /\ \E j \in BufIdx : fixed64_to_double(fftHW_lmem[j], FRAC_BITS) # data[j]
    /\ data # data0

HWOrder == <<"bit_reverse", "encode", "request", "decode", "peak_search">>

\* C7: in the hardware build the stages run in the order bit-reverse, encode,
\* request, decode, peak search, each at most once and, in a call that
\* returns, each exactly once with exactly one request; when the request is
\* issued all 2N words hold the encoded bit-reversed buffer, the buffer is not
\* decoded before the request has succeeded, and the decode covers all 2N
\* words.
C7_StageOrder ==
    HW_FFT =>
        /\ IF Exited THEN trace = FaultOrder ELSE IsPrefix(trace, HWOrder)
        /\ ioctl_calls = (IF InTrace("request") THEN 1 ELSE 0)
        /\ Returned => trace = HWOrder
        /\ (InTrace("bit_reverse") /\ ~InTrace("decode")) =>
              data = fft_bit_reverse(data0, fftHW_len, fftHW_log_len)
        /\ (InTrace("encode") /\ ~InTrace("request")) =>
              \A j \in 0 .. (2 * fftHW_len - 1) :
                 fftHW_lmem[j] = double_to_fixed64(data[j], FRAC_BITS)
        /\ InTrace("decode") =>
              /\ ioctl_rc = 0
              /\ \A j \in 0 .. (2 * fftHW_len - 1) :
                    data[j] = fixed64_to_double(fftHW_lmem[j], FRAC_BITS)

\* C7 witness: a hardware-build call returned after all five stages, on an
\* input that the bit reversal, and then the transform, changed.
C7_Witness ==
    /\ HW_FFT
    /\ Returned
    /\ trace = HWOrder
    /\ ioctl_calls = 1
    /\ fft_bit_reverse(data0, fftHW_len, fftHW_log_len) # data0
    /\ data # fft_bit_reverse(data0, fftHW_len, fftHW_log_len)

\* C8: when the threshold test passes the value returned is the distance of
\* max_index, with max_index in [0, N), finite and non-negative, hence not the
\* sentinel; the sentinel is returned only when the test fails; and a fatal
\* device fault returns nothing.
C8_Distinguishable ==
    /\ Returned =>
          IF Detected(max_psd)
          THEN /\ max_index \in Bins
               /\ ret = Distance(max_index)
               /\ ret.kind = "float" /\ ret.den > 0 /\ ret.num >= 0
               /\ ret # INFINITY
          ELSE ret = INFINITY
    /\ ~Returned => ret = NoValue

\* C8 witness: a call returned a positive finite distance.
C8_Witness ==
    /\ Returned
    /\ Detected(max_psd)
    /\ max_index > 0
    /\ ret.num > 0 /\ ret.den > 0

\* the buffer, the stages and the value a finished call ends with, as
\* functions of the input, the build's transform and the device status alone
RefData(d0, hw, rc) ==
    IF ~hw THEN fft(d0, RADAR_N)
    ELSE IF rc # 0 THEN fft_bit_reverse(d0, RADAR_N, RADAR_LOGN)
    ELSE LET w == fft_bit_reverse(d0, RADAR_N, RADAR_LOGN)
             m == FFTHW(EncodeLoop([j \in BufIdx |-> FixedZero], w,
                                   2 * RADAR_N), RADAR_LOGN)
         IN  DecodeLoop(w, m, 2 * RADAR_N)
RefTrace(hw, rc) ==
    IF ~hw THEN <<"fft", "peak_search">>
    ELSE IF rc # 0 THEN FaultOrder
    ELSE HWOrder
RefRet(d0, hw, rc) ==
    IF hw /\ rc # 0 THEN NoValue
    ELSE LET b == PeakScan(RefData(d0, hw, rc))
         IN  IF Detected(b.max_psd) THEN Distance(b.max_index) ELSE INFINITY

\* C9: the stages a finished call has executed, the buffer it leaves and the
\* value it returns are determined by the input buffer, the transform path and
\* the device status, whether or not the build has INT_TIME; an
\* instrumentation block changes only the clock reading, the timeval structs
\* and the accumulators; and a build without INT_TIME never changes those.
C9_TimingObservational ==
    /\ [](( Returned \/ Exited ) =>
            /\ trace = RefTrace(HW_FFT, ioctl_rc)
            /\ data = RefData(data0, HW_FFT, ioctl_rc)
            /\ ret = RefRet(data0, HW_FFT, ioctl_rc))
    /\ [][(pc \in {"t_calc_start", "t_br", "t_cvtin", "t_fft_hw", "t_cvtout",
                   "t_fft_start", "t_fft_stop", "t_calc_stop", "t_cdfmcw"})
             => UNCHANGED <<Config, data, Results, Device, trace>>]_vars
    /\ [][~INT_TIME => UNCHANGED Timers]_vars

\* C9 witness: an instrumented hardware-build call returned a distance with
\* time accumulated in one of its timers.
C9_Witness ==
    /\ INT_TIME
    /\ HW_FFT
    /\ Returned
    /\ ret # INFINITY
    /\ acc # AccZero

\* C10: after the scan max_index is in [0, N), max_psd is non-negative, no bin
\* has power greater than max_psd, max_psd is the power of bin max_index when
\* some bin has positive power and otherwise max_psd = 0 and max_index = 0;
\* and the scan leaves the sample buffer as it was.
C10_ScanResult ==
    /\ [](AfterScan =>
            /\ max_index \in Bins
            /\ max_psd.num >= 0 /\ max_psd.den > 0
            /\ \A i \in Bins : ~RatGT(Temp(data, i), max_psd)
            /\ IF \E i \in Bins : RatGT(Temp(data, i), ZeroPsd)
               THEN RatEQ(max_psd, Temp(data, max_index))
               ELSE max_psd = ZeroPsd /\ max_index = 0)
    /\ [][pc = "peak_search" => data' = data]_vars

\* C10 witness: the scan has found a single strongest bin, the last one.
C10_Witness ==
    /\ AfterScan
    /\ max_index = RADAR_N - 1
    /\ MaxBins(data) = {RADAR_N - 1}

\* the two transform paths leave the same spectrum in the buffer
PathsAgree == (InTrace("decode") \/ InTrace("fft")) => data = fft(data0, RADAR_N)

=============================================================================
